---- MODULE Spec2Model ----
(***************************************************************************)
(* A model of ddlgenerator.Table (src/ddlgenerator/ddlgenerator.py): data  *)
(* loading, construction of the table tree, and emission of DDL / INSERT   *)
(* statements.                                                             *)
(*                                                                         *)
(* Values.  A Python value is a tagged tuple:                              *)
(*   <<"null">>            None                                            *)
(*   <<"int", n>>          an int                                          *)
(*   <<"str", s>>          a str                                           *)
(*   <<"rows", seq>>       a list of dicts                                 *)
(*   <<"scalars", seq>>    a list of scalars                               *)
(* A row (an OrderedDict) is a sequence of <<key, value>> pairs with       *)
(* distinct keys; a population is a sequence of rows.                      *)
(* NoneV stands for None where a name or a dialect is expected.            *)
(***************************************************************************)
EXTENDS Integers, Sequences, FiniteSets, TLC

NoneV == "None"
Null == <<"null">>
I(n) == <<"int", n>>
S(s) == <<"str", s>>

\* ---------------------------------------------------------------- bounds
\* Longest generated flat population (rows).
MaxRows == 2
\* Constructions of a Table in one process.
MaxBuilds == 2

\* ------------------------------------------------------------ row helpers
Keys(row) == [i \in 1..Len(row) |-> row[i][1]]

Has(row, k) == \E i \in 1..Len(row) : row[i][1] = k

Get(row, k) == row[CHOOSE i \in 1..Len(row) : row[i][1] = k][2]

Range(s) == {s[i] : i \in 1..Len(s)}

Contains(s, x) == \E i \in 1..Len(s) : s[i] = x

IsList(v) == v[1] \in {"rows", "scalars"}

\* ------------------------------------------------------------ typehelpers
\* th.is_scalar: everything but a collection
is_scalar(v) == ~IsList(v)

\* str(v) of a nested value
Str(v) == IF v[1] = "str" THEN v ELSE S("nested")

\* Strings the Scalar Coercer reads as integers
NumeralStrings == {"1", "2", "83", "69"}

\* the most specific kind one non-null value can take
Kind(v) ==
    IF v[1] = "int" THEN "integer"
    ELSE IF v[1] = "str" /\ v[2] \in NumeralStrings THEN "integer"
    ELSE "text"

\* th.best_coercable: the least specific kind that covers every non-null value
best_coercable(vals) ==
    LET nn == {i \in 1..Len(vals) : vals[i] # Null}
    IN  IF nn = {} THEN "text"
        ELSE IF \A i \in nn : Kind(vals[i]) = "integer" THEN "integer"
        ELSE "text"

\* --------------------------------------------------------- _determine_types
RECURSIVE AppendNew(_, _)
\* the keys of ks not yet in cols, appended in order (line 330-331)
AppendNew(cols, ks) ==
    IF ks = <<>> THEN cols
    ELSE AppendNew(IF Contains(cols, Head(ks)) THEN cols ELSE Append(cols, Head(ks)),
                   Tail(ks))

RECURSIVE ColumnNames(_)
\* self.columns' keys, in first-seen order over the rows (lines 319-332)
ColumnNames(data) ==
    IF data = <<>> THEN <<>>
    ELSE AppendNew(ColumnNames(SubSeq(data, 1, Len(data) - 1)),
                   Keys(data[Len(data)]))

\* one observed value as it is stored (lines 325-328)
Stored(v) == IF is_scalar(v) THEN v ELSE Str(v)

RECURSIVE ColumnValues(_, _)
\* self.columns[k]: the values of the rows that have k, in row order
ColumnValues(data, k) ==
    IF data = <<>> THEN <<>>
    ELSE LET rest == ColumnValues(SubSeq(data, 1, Len(data) - 1), k)
             row == data[Len(data)]
         IN  IF Has(row, k) THEN Append(rest, Stored(Get(row, k))) ELSE rest

\* the columns that got a comment (lines 326-329)
Comments(data) ==
    {k \in Range(ColumnNames(data)) :
        \E i \in 1..Len(data) : Has(data[i], k) /\ ~is_scalar(Get(data[i], k))}

\* self.is_unique[col] (line 345)
IsUnique(vals, uniques) ==
    uniques /\ Cardinality(Range(vals)) = Len(vals)

IsNullableIgnoresNone(vals, rowcount) == Len(vals) < rowcount

\* self.is_nullable[col] (lines 346-347)
IsNullable(vals, rowcount) ==
    Len(vals) < rowcount \/ Contains(vals, Null)

\* the result of _determine_types: per column, in column order
determine_types(data, uniques) ==
    LET names == ColumnNames(data)
    IN  [i \in 1..Len(names) |->
            LET vals == ColumnValues(data, names[i])
            IN  [name |-> names[i],
                 pytype |-> best_coercable(vals),
                 is_unique |-> IsUnique(vals, uniques),
                 is_nullable |-> IsNullable(vals, Len(data))]]

\* ------------------------------------------------------------------ reshape
\* reshape.clean_key_name on the names used here: lower-cases, and is the
\* identity on names that are already canonical (it is idempotent).
clean_key_name(name) ==
    CASE name = "Knights" -> "knights"
      [] name = "Name" -> "name"
      [] OTHER -> name

\* reshape.clean_all_keys: every key of every row sanitized
clean_all_keys(data) ==
    [i \in 1..Len(data) |->
        [j \in 1..Len(data[i]) |-> <<clean_key_name(data[i][j][1]), data[i][j][2]>>]]

\* the name of a synthesized surrogate key column
SurrogateName == "id"

\* the fields that hold a collection in some row, in first-seen order
NestedKeys(data) ==
    SelectSeq(ColumnNames(data),
              LAMBDA k : \E i \in 1..Len(data) : Has(data[i], k) /\ IsList(Get(data[i], k)))

\* the key the normalizer resolves: the caller's, else a surrogate when children need one
ResolvedPk(data, pk_name) ==
    IF pk_name # NoneV THEN pk_name
    ELSE IF NestedKeys(data) # <<>> THEN SurrogateName
    ELSE NoneV

\* rows with the key column: a sequential integer is added as the first
\* column when no row has the field
WithPk(data, pk) ==
    IF pk = NoneV \/ \E i \in 1..Len(data) : Has(data[i], pk) THEN data
    ELSE [i \in 1..Len(data) |-> <<<<pk, I(i)>>>> \o data[i]]

PkValue(row, pk) == IF Has(row, pk) THEN Get(row, pk) ELSE Null

\* the child rows one parent row contributes for field k, each with the foreign key
ChildRowsOf(row, k, pk, fk_name) ==
    IF ~Has(row, k) \/ ~IsList(Get(row, k)) THEN <<>>
    ELSE LET v == Get(row, k)
             fkpair == <<fk_name, PkValue(row, pk)>>
         IN  [j \in 1..Len(v[2]) |->
                IF v[1] = "rows" THEN Append(v[2][j], fkpair)
                ELSE << <<k, v[2][j]>>, fkpair >>]

RECURSIVE ChildRows(_, _, _, _)
ChildRows(data, k, pk, fk_name) ==
    IF data = <<>> THEN <<>>
    ELSE ChildRows(SubSeq(data, 1, Len(data) - 1), k, pk, fk_name)
         \o ChildRowsOf(data[Len(data)], k, pk, fk_name)

\* reshape.unnest_children(data, parent_name, pk_name):
\* (flat rows, resolved pk name, children in discovery order, fk field names)
unnest_children(data, parent_name, pk_name) ==
    LET pk == ResolvedPk(data, pk_name)
        keyed == WithPk(data, pk)
        nested == NestedKeys(data)
        fk_name == parent_name \o "_id"
    IN  [data |-> [i \in 1..Len(keyed) |->
                    SelectSeq(keyed[i], LAMBDA p : ~Contains(nested, p[1]))],
         pk_name |-> pk,
         children |-> [n \in 1..Len(nested) |->
                        [name |-> parent_name \o "_" \o nested[n],
                         data |-> ChildRows(keyed, nested[n], pk, fk_name),
                         fk_field_name |-> fk_name]]]

\* ----------------------------------------------------------------- _load_data
\* the decoders of eval_funcs_by_ext, by file extension (lines 118-125)
eval_funcs_by_ext(ext) ==
    CASE ext = ".py" -> <<"eval">>
      [] ext = ".json" -> <<"json">>
      [] ext = ".yaml" -> <<"yaml">>
      [] ext = ".csv" -> <<"csv">>
      [] OTHER -> <<"eval", "json", "yaml", "csv">>

\* characters \s matches, and the comma
Whitespace == {" ", "\n", "\t"}

\* _looks_like_filename.search(data): ^[^\s\,]+$ ; $ also matches before a
\* newline that ends the text (line 127)
looks_like_filename(chars) ==
    \E n \in 1..Len(chars) :
        /\ \A i \in 1..n : chars[i] \notin Whitespace \cup {","}
        /\ \/ n = Len(chars)
           \/ n = Len(chars) - 1 /\ chars[Len(chars)] = "\n"

\* hasattr(x, 'lower')
IsString(v) == v[1] = "str"

\* bool(x)
Truthy(v) ==
    CASE v[1] = "null" -> FALSE
      [] v[1] = "int" -> v[2] # 0
      [] v[1] = "str" -> v[2] # ""
      [] OTHER -> v[2] # <<>>

\* one decoder's result is taken (lines 152-158)
Accepted(outcome) ==
    outcome[1] = "value" /\ ~IsString(outcome[2]) /\ Truthy(outcome[2])

\* the loop is left: a result is taken, or the decoder raised what
\* "except Exception" does not catch (lines 151-161)
Leaves(outcome) == Accepted(outcome) \/ outcome[1] = "exit"

LeavesOnStrings(outcome) ==
    \/ outcome[1] = "value" /\ Truthy(outcome[2])
    \/ outcome[1] = "exit"

FirstAcceptedTakesStrings(funcs, res) ==
    IF \E i \in 1..Len(funcs) : LeavesOnStrings(res[funcs[i]])
    THEN CHOOSE i \in 1..Len(funcs) :
            /\ LeavesOnStrings(res[funcs[i]])
            /\ \A j \in 1..(i - 1) : ~LeavesOnStrings(res[funcs[j]])
    ELSE 0

\* the index of the decoder the loop is left at, 0 when it runs to its end
FirstAccepted(funcs, res) ==
    IF \E i \in 1..Len(funcs) : Leaves(res[funcs[i]])
    THEN CHOOSE i \in 1..Len(funcs) :
            Leaves(res[funcs[i]]) /\ \A j \in 1..(i - 1) : ~Leaves(res[funcs[j]])
    ELSE 0

\* _load_data(data): the error raised ("ok" when none), self.data, and the
\* decoders applied, in order
load_data(data) ==
    IF data[1] = "text" THEN
        LET t == data[2]
            funcs == eval_funcs_by_ext(IF t.isfile THEN t.ext ELSE NoneV)
            n == FirstAccepted(funcs, t.res)
        IN  IF n > 0 /\ t.res[funcs[n]][1] = "exit"
            THEN [err |-> "SystemExit", data |-> Null, tried |-> SubSeq(funcs, 1, n)]
            ELSE IF n > 0
            THEN [err |-> "ok", data |-> t.res[funcs[n]][2], tried |-> SubSeq(funcs, 1, n)]
            ELSE [err |-> IF looks_like_filename(t.chars) THEN "FilenameNotFound"
                          ELSE "UnableToInterpret",
                  data |-> Null, tried |-> funcs]
    ELSE [err |-> IF Truthy(data[2]) THEN "ok" ELSE "NoDataFound",
          data |-> data[2], tried |-> <<>>]

\* ------------------------------------------------------------ Table.__init__
\* sa.MetaData(): no table registered
EmptyMetadata == [n \in {} |-> <<>>]

\* sa.ForeignKey('%s.%s' % (parent_table.table_name, parent_table.pk_name)),
\* <<>> when there is no parent (lines 202-205)
ForeignKey(parent) ==
    IF parent # <<>> THEN <<parent[1].table_name, parent[1].pk_name>> ELSE <<>>

ColumnFkOnEveryColumn(t, fk, fk_field_name, pk_name) ==
    [name |-> t.name,
     satype |-> IF t.pytype = "integer" THEN "Integer" ELSE "String",
     fk |-> fk,
     primary_key |-> (t.name = pk_name),
     unique |-> t.is_unique,
     nullable |-> t.is_nullable]

\* sa.Column(c, t, fk if fk and (fk_field_name == c) else None,
\*           primary_key=..., unique=..., nullable=...)   (lines 210-215)
Column(t, fk, fk_field_name, pk_name) ==
    [name |-> t.name,
     satype |-> IF t.pytype = "integer" THEN "Integer" ELSE "String",
     fk |-> IF fk # <<>> /\ fk_field_name = t.name THEN fk ELSE <<>>,
     primary_key |-> (t.name = pk_name),
     unique |-> t.is_unique,
     nullable |-> t.is_nullable]

\* 'generated_table%s' % Table.table_index (line 188)
GeneratedName(index) == "generated_table" \o ToString(index)

Failed(err, md, stages, ld, assigned) ==
    [err |-> err, md |-> md, nodes |-> EmptyMetadata, root |-> NoneV,
     stages |-> stages, tried |-> ld.tried, loaded |-> ld.data, assigned |-> assigned]

RECURSIVE TableInit(_, _, _, _, _, _, _)
RECURSIVE BuildChildren(_, _, _, _, _, _)

\* the tables of a child and of the children after it
ChildrenBuilt(one, rest) ==
    [err |-> rest.err, md |-> rest.md, nodes |-> one.nodes @@ rest.nodes]

\* one child is built; an exception ends the loop
ChildBuilt(one, children, n, parent, opts, index) ==
    IF one.err # "ok" THEN [err |-> one.err, md |-> one.md, nodes |-> EmptyMetadata]
    ELSE ChildrenBuilt(one, BuildChildren(children, n + 1, parent, opts, one.md, index))

\* the children of lines 218-225, built one after the other from position n
BuildChildren(children, n, parent, opts, md, index) ==
    IF n > Len(children) THEN [err |-> "ok", md |-> md, nodes |-> EmptyMetadata]
    ELSE ChildBuilt(TableInit(<<"native", <<"rows", children[n].data>>>>, children[n].name,
                              opts, <<parent>>, children[n].fk_field_name, md, index),
                    children, n, parent, opts, index)

\* the Table object without the order of its children dict
Node(name, un, columns, opts, parent, fk_field_name, md1) ==
    [table_name |-> name,
     data |-> un.data,
     pk_name |-> un.pk_name,
     columns |-> columns,
     comments |-> Comments(un.data),
     table |-> md1[name],
     fk_field_name |-> fk_field_name,
     parent |-> IF parent = <<>> THEN NoneV ELSE parent[1].table_name,
     default_dialect |-> opts.default_dialect,
     discovered |-> [i \in 1..Len(un.children) |-> un.children[i].name],
     children |-> [i \in 1..Len(un.children) |-> un.children[i].name]]

\* the result of __init__ once the children are built (lines 218-225)
WithChildren(ld, node, kids) ==
    [err |-> kids.err, md |-> kids.md,
     nodes |-> IF kids.err = "ok" THEN (node.table_name :> node) @@ kids.nodes
               ELSE EmptyMetadata,
     root |-> IF kids.err = "ok" THEN node.table_name ELSE NoneV,
     stages |-> {"load", "normalize", "types", "table"},
     tried |-> ld.tried, loaded |-> ld.data, assigned |-> node.table_name]

\* sa.Table(name, metadata, *columns) registered, then the children (lines 209-225)
Registered(ld, node, un, opts, md1, index) ==
    WithChildren(ld, node, BuildChildren(un.children, 1, node, opts, md1, index))

\* sa.Table(self.table_name, metadata, *columns): a name already in the
\* metadata is an error when columns are given, else the table registered
\* under that name is returned (line 209)
Typed(ld, name, un, columns, opts, parent, fk_field_name, md, index) ==
    IF name \in DOMAIN md /\ columns # <<>>
    THEN Failed("AlreadyDefined", md, {"load", "normalize", "types"}, ld, name)
    ELSE IF name \in DOMAIN md
    THEN Registered(ld, Node(name, un, columns, opts, parent, fk_field_name, md),
                    un, opts, md, index)
    ELSE Registered(ld, Node(name, un, columns, opts, parent, fk_field_name,
                             md @@ (name :> columns)),
                    un, opts, md @@ (name :> columns), index)

\* the sa.Column of every column of self.satypes (lines 200-216)
Columns(types, fk, fk_field_name, pk_name) ==
    [i \in 1..Len(types) |-> Column(types[i], fk, fk_field_name, pk_name)]

\* after reshape.unnest_children (lines 196-216)
Normalized(ld, name, un, opts, parent, fk_field_name, md, index) ==
    Typed(ld, name, un,
          Columns(determine_types(un.data, opts.uniques), ForeignKey(parent),
                  fk_field_name, un.pk_name),
          opts, parent, fk_field_name, md, index)

\* self.data as a list (lines 191-192)
Population(v) == IF v[1] = "dict" THEN <<v[2]>> ELSE v[2]

\* after the table name is set (lines 188-197)
Named(ld, name, opts, parent, fk_field_name, md, index) ==
    Normalized(ld, name,
               unnest_children(clean_all_keys(Population(ld.data)), name, opts.pk_name),
               opts, parent, fk_field_name, md, index)

\* after _load_data (lines 185-189)
Loaded(ld, table_name, opts, parent, fk_field_name, md, index) ==
    IF ld.err # "ok" THEN Failed(ld.err, md, {}, ld, NoneV)
    ELSE IF IsString(ld.data) THEN Failed("SingleString", md, {"load"}, ld, NoneV)
    ELSE Named(ld,
               clean_key_name(IF table_name # NoneV THEN table_name
                              ELSE GeneratedName(index)),
               opts, parent, fk_field_name, md, index)

\* Table.__init__ (lines 174-225): the error raised ("ok" when none), the
\* metadata afterwards, and the tables built, by table name
TableInit(data, table_name, opts, parent, fk_field_name, md, index) ==
    Loaded(load_data(data), table_name, opts, parent, fk_field_name, md, index)

\* ------------------------------------------------------------------ emission
\* line 65
dialect_names ==
    {"drizzle", "firebird", "mssql", "mysql", "oracle", "postgresql", "sqlite", "sybase"}

\* lines 93-96
mock_engines == {"postgresql", "sqlite", "mysql", "oracle", "mssql"}

\* lines 236-238
supports_if_exists(d) == d \in {"postgresql", "sqlite", "mysql", "sybase"}

\* Table._dialect (lines 228-234)
dialect_check(dialect, default_dialect) ==
    IF dialect = NoneV /\ default_dialect = NoneV
    THEN [err |-> "NoDialect", dialect |-> NoneV]
    ELSE LET d == IF dialect # NoneV THEN dialect ELSE default_dialect
         IN  [err |-> IF d \notin mock_engines THEN "UnknownDialect" ELSE "ok",
              dialect |-> d]

\* Table._dropper (lines 239-242)
dropper(table_name, d) == <<"DROP", table_name, supports_if_exists(d)>>

RECURSIVE ddl(_, _, _)
RECURSIVE ddl_children(_, _, _, _)

ddl_children(nodes, kids, n, d) ==
    IF n > Len(kids) THEN [err |-> "ok", stmts |-> <<>>]
    ELSE LET one == ddl(nodes, kids[n], d)
         IN  IF one.err # "ok" THEN one
             ELSE LET rest == ddl_children(nodes, kids, n + 1, d)
                  IN  [err |-> rest.err, stmts |-> one.stmts \o rest.stmts]

\* Table.ddl (lines 245-258): own DROP and CREATE, then each child's ddl
ddl(nodes, name, dialect) ==
    LET chk == dialect_check(dialect, nodes[name].default_dialect)
    IN  IF chk.err # "ok" THEN [err |-> chk.err, stmts |-> <<>>]
        ELSE LET own == <<dropper(name, chk.dialect), <<"CREATE", name, chk.dialect>>>>
                 rest == ddl_children(nodes, nodes[name].children, 1, chk.dialect)
             IN  [err |-> rest.err, stmts |-> own \o rest.stmts]

\* Table._prep_datum raises for a value its column's type cannot be built
\* from: pytype(str(None)) for a non-text column (lines 263-269)
PrepFails(node, row) ==
    \E j \in 1..Len(row) :
        /\ row[j][2] = Null
        /\ \E c \in 1..Len(node.columns) :
              node.columns[c].name = row[j][1] /\ node.columns[c].satype # "String"

\* the INSERT statements of the table's own rows, up to the first row that
\* cannot be prepared (lines 283-286)
OwnInserts(node) ==
    LET bad == {i \in 1..Len(node.data) : PrepFails(node, node.data[i])}
        upto == IF bad = {} THEN Len(node.data)
                ELSE (CHOOSE i \in bad : \A j \in bad : i <= j) - 1
    IN  [err |-> IF bad = {} THEN "ok" ELSE "ValueError",
         stmts |-> [i \in 1..upto |-> <<"INSERT", node.table_name, i>>]]

RECURSIVE inserts(_, _, _)
RECURSIVE inserts_children(_, _, _, _)

inserts_children(nodes, kids, n, d) ==
    IF n > Len(kids) THEN [err |-> "ok", stmts |-> <<>>]
    ELSE LET one == inserts(nodes, kids[n], d)
         IN  IF one.err # "ok" THEN one
             ELSE LET rest == inserts_children(nodes, kids, n + 1, d)
                  IN  [err |-> rest.err, stmts |-> one.stmts \o rest.stmts]

\* Table.inserts (lines 281-289): own rows, then each child's inserts
inserts(nodes, name, dialect) ==
    LET chk == dialect_check(dialect, nodes[name].default_dialect)
    IN  IF chk.err # "ok" THEN [err |-> chk.err, stmts |-> <<>>]
        ELSE LET own == OwnInserts(nodes[name])
             IN  IF own.err # "ok" THEN own
                 ELSE LET rest == inserts_children(nodes, nodes[name].children, 1, chk.dialect)
                      IN  [err |-> rest.err, stmts |-> own.stmts \o rest.stmts]

\* Table.sql (lines 292-300)
sql(nodes, name, dialect, with_inserts) ==
    LET d == ddl(nodes, name, dialect)
    IN  IF d.err # "ok" \/ ~with_inserts THEN d
        ELSE LET rows == inserts(nodes, name, dialect)
             IN  IF rows.err # "ok" THEN [err |-> rows.err, stmts |-> <<>>]
                 ELSE [err |-> "ok", stmts |-> d.stmts \o rows.stmts]

\* -------------------------------------------------------------------- inputs
\* Generated flat populations: rows in which the field a is absent or holds
\* 1, 2 or None.
AVals == {I(1), I(2), Null}

RowShapes == {<<>>} \cup {<< <<"a", v>> >> : v \in AVals}

FlatPopulations == UNION {[1..n -> RowShapes] : n \in 1..MaxRows}

Rows(pop) == <<"rows", pop>>

\* the two knights of the class docstring (lines 100-107)
Knights ==
    Rows(<< << <<"name", S("Lancelot")>>, <<"kg", I(83)>>, <<"dob", S("9 jan 461")>> >>,
            << <<"name", S("Gawain")>>, <<"kg", S("69")>> >> >>)

\* one record with a list of scalars
Arthur ==
    Rows(<< << <<"Name", S("Arthur")>>,
               <<"knights", <<"scalars", <<S("Lancelot"), S("Gawain")>>>>>> >> >>)

\* one record with two lists of records
Siblings ==
    Rows(<< << <<"a", I(1)>>,
               <<"x", Rows(<< << <<"c", I(1)>> >> >>)>>,
               <<"y", Rows(<< << <<"c", I(2)>> >> >>)>> >> >>)

\* a list nested two levels deep
Grandchild ==
    Rows(<< << <<"a", I(1)>>,
               <<"x", Rows(<< << <<"c", I(1)>>,
                                 <<"z", Rows(<< << <<"d", Null>> >> >>)>> >> >>)>> >> >>)

\* two parent rows with one and two child rows
TwoParents ==
    Rows(<< << <<"a", I(1)>>, <<"x", Rows(<< << <<"c", I(1)>> >> >>)>> >>,
            << <<"a", I(2)>>, <<"x", Rows(<< << <<"c", I(2)>> >>, << <<"c", I(2)>> >> >>)>> >> >>)

\* a record whose list is empty
EmptyChild == Rows(<< << <<"a", I(1)>>, <<"x", Rows(<<>>)>> >> >>)

\* a single record, not in a list
OneRecord == <<"dict", << <<"a", I(1)>> >> >>

NativeInputs ==
    {Rows(p) : p \in FlatPopulations}
    \cup {Knights, Arthur, Siblings, Grandchild, TwoParents, EmptyChild, OneRecord,
          Rows(<<>>), <<"dict", <<>>>>}

Raises == <<"raise">>
\* eval("exit()") raises SystemExit, which is no Exception
Exits == <<"exit">>
Value(v) == <<"value", v>>

\* what eval, json_loader, ordered_yaml_load and _eval_csv (lines 67-88) make
\* of a text
Decoded(e, j, y, c) == [eval |-> e, json |-> j, yaml |-> y, csv |-> c]

Text(chars, res) == [chars |-> chars, isfile |-> FALSE, ext |-> NoneV, res |-> res]
File(ext, chars, res) == [chars |-> chars, isfile |-> TRUE, ext |-> ext, res |-> res]

NoRows == Value(Rows(<<>>))
RowA1 == Rows(<< << <<"a", I(1)>> >> >>)
JsonChars == <<"[", "{", "\"", "a", "\"", ":", "1", "}", "]">>
JsonText == Decoded(Value(RowA1), Value(RowA1), Value(RowA1), NoRows)
YamlChars == <<"-", " ", "a", ":", " ", "1">>
YamlText == Decoded(Raises, Raises, Value(RowA1), NoRows)

TextInputs ==
    { \* ""
      Text(<<>>, Decoded(Raises, Raises, Value(Null), NoRows)),
      \* "[]"
      Text(<<"[", "]">>, Decoded(NoRows, NoRows, NoRows, NoRows)),
      \* "[ ]"
      Text(<<"[", " ", "]">>, Decoded(NoRows, NoRows, NoRows, NoRows)),
      \* "foo"
      Text(<<"f", "o", "o">>, Decoded(Raises, Raises, Value(S("foo")), NoRows)),
      \* "foo\n"
      Text(<<"f", "o", "o", "\n">>, Decoded(Raises, Raises, Value(S("foo")), NoRows)),
      \* "a,b"
      Text(<<"a", ",", "b">>, Decoded(Raises, Raises, Value(S("a,b")), NoRows)),
      \* "a,b\n1,2"
      Text(<<"a", ",", "b", "\n", "1", ",", "2">>,
           Decoded(Raises, Raises, Value(S("a,b 1,2")),
                   Value(Rows(<< << <<"a", S("1")>>, <<"b", S("2")>> >> >>)))),
      \* '[{"a":1}]'
      Text(JsonChars, JsonText),
      \* '{"a":null}'
      Text(<<"{", "\"", "a", "\"", ":", "n", "u", "l", "l", "}">>,
           Decoded(Raises, Value(<<"dict", << <<"a", Null>> >> >>),
                   Value(<<"dict", << <<"a", Null>> >> >>), NoRows)),
      \* "- a: 1"
      Text(YamlChars, YamlText),
      \* "exit()"
      Text(<<"e", "x", "i", "t", "(", ")">>,
           Decoded(Exits, Raises, Value(S("exit()")), NoRows)),
      \* a file menu.json holding '[{"a":1}]'
      File(".json", JsonChars, JsonText),
      \* a file menu.csv holding '[{"a":1}]'
      File(".csv", JsonChars, JsonText),
      \* a file menu.txt holding "- a: 1"
      File(".txt", YamlChars, YamlText) }

DataInputs ==
    {<<"native", d>> : d \in NativeInputs} \cup {<<"text", t>> : t \in TextInputs}

PkNames == {NoneV, "a"}
DefaultDialects == {NoneV, "postgresql", "bogus"}
CallDialects == {NoneV, "mssql", "bogus"}
TableNames == {NoneV, "Knights"}

\* --------------------------------------------------------------------- state
VARIABLES
    arg,          \* what the caller passes to Table(...): data and options
    metadata,     \* the module's sa.MetaData(): table name -> registered columns
    table_index,  \* Table.table_index
    builds,       \* the constructions made so far, in order
    last          \* the last request: operation, dialect asked for, result

vars == <<arg, metadata, table_index, builds, last>>

Init ==
    /\ arg \in [data : DataInputs, uniques : BOOLEAN, pk_name : PkNames,
                default_dialect : DefaultDialects]
    /\ metadata = EmptyMetadata
    /\ table_index = 0
    /\ builds = <<>>
    /\ last = [op |-> "none", target |-> 0, dialect |-> NoneV, err |-> "ok",
               stages |-> {}, stmts |-> <<>>]

Orderings(s) ==
    {p \in [1..Len(s) -> Range(s)] : \A i, j \in 1..Len(s) : i # j => p[i] # p[j]}

\* the orders in which the dicts self.children (line 218) may iterate
ChildOrders(nodes) ==
    {f \in [DOMAIN nodes -> UNION {Orderings(nodes[n].discovered) : n \in DOMAIN nodes}] :
        \A n \in DOMAIN nodes : f[n] \in Orderings(nodes[n].discovered)}

\* Table(data, table_name, default_dialect=..., uniques=..., pk_name=...)
Construct(table_name) ==
    /\ Len(builds) < MaxBuilds
    /\ LET r == TableInit(arg.data, table_name, arg, <<>>, NoneV, metadata, table_index)
       IN  /\ \E order \in ChildOrders(r.nodes) :
                builds' = Append(builds,
                    [table_name |-> table_name, err |-> r.err, root |-> r.root,
                     nodes |-> [n \in DOMAIN r.nodes |->
                                  [r.nodes[n] EXCEPT !.children = order[n]]],
                     tried |-> r.tried, loaded |-> r.loaded, assigned |-> r.assigned])
           /\ metadata' = r.md
           /\ last' = [op |-> "Table", target |-> Len(builds) + 1,
                       dialect |-> arg.default_dialect, err |-> r.err,
                       stages |-> r.stages, stmts |-> <<>>]
    /\ UNCHANGED <<arg, table_index>>

Requested(b, dialect) ==
    IF dialect # NoneV THEN dialect ELSE builds[b].nodes[builds[b].root].default_dialect

Emitted(op, b, dialect, r) ==
    /\ last' = [op |-> op, target |-> b, dialect |-> Requested(b, dialect), err |-> r.err,
                stages |-> IF r.err \in {"NoDialect", "UnknownDialect"} THEN {}
                           ELSE {"render"},
                stmts |-> r.stmts]
    /\ UNCHANGED <<arg, metadata, table_index, builds>>

\* table.ddl(dialect)
Ddl(b, dialect) ==
    /\ builds[b].err = "ok"
    /\ Emitted("ddl", b, dialect, ddl(builds[b].nodes, builds[b].root, dialect))

\* list(table.inserts(dialect))
Inserts(b, dialect) ==
    /\ builds[b].err = "ok"
    /\ Emitted("inserts", b, dialect, inserts(builds[b].nodes, builds[b].root, dialect))

\* table.sql(dialect, inserts=with_inserts)
Sql(b, dialect, with_inserts) ==
    /\ builds[b].err = "ok"
    /\ Emitted("sql", b, dialect,
               sql(builds[b].nodes, builds[b].root, dialect, with_inserts))

Next ==
    \/ \E n \in TableNames : Construct(n)
    \/ \E b \in DOMAIN builds, d \in CallDialects : Ddl(b, d)
    \/ \E b \in DOMAIN builds, d \in CallDialects : Inserts(b, d)
    \/ \E b \in DOMAIN builds, d \in CallDialects, i \in BOOLEAN : Sql(b, d, i)

Spec == Init /\ [][Next]_vars

\* constructions alone
NextConstruct == \E n \in TableNames : Construct(n)

SpecConstruct == Init /\ [][NextConstruct]_vars

\* -------------------------------------------------------------------- claims
\* the constructions that returned a Table
Built == {b \in DOMAIN builds : builds[b].err = "ok"}

\* the table a column name belongs to has this column record
ColumnsOf(node) == Range(node.columns)

\* some row lacks field k or holds None for it
LacksOrNull(data, k) ==
    \E i \in 1..Len(data) : ~Has(data[i], k) \/ Get(data[i], k) = Null

\* C1: in every table built, a column is marked nullable if and only if some
\* row of the table's population lacks the field or holds None for it.
C1_Nullable ==
    \A b \in Built : \A n \in DOMAIN builds[b].nodes :
        LET node == builds[b].nodes[n]
        IN  \A c \in ColumnsOf(node) : c.nullable <=> LacksOrNull(node.data, c.name)

\* a table of several rows has a column that every row supplies, with None
\* in one row and a value in another, and the column is marked nullable
C1_Witness ==
    \E b \in Built : \E n \in DOMAIN builds[b].nodes :
        LET node == builds[b].nodes[n]
        IN  /\ Len(node.data) >= 2
            /\ \E c \in ColumnsOf(node) :
                  /\ c.nullable
                  /\ \A i \in 1..Len(node.data) : Has(node.data[i], c.name)
                  /\ \E i \in 1..Len(node.data) : Get(node.data[i], c.name) = Null
                  /\ \E i \in 1..Len(node.data) : Get(node.data[i], c.name) # Null

\* the non-null values observed for k are pairwise distinct
NonNullDistinct(data, k) ==
    \A i, j \in 1..Len(data) :
        (/\ i # j
         /\ Has(data[i], k) /\ Has(data[j], k)
         /\ Get(data[i], k) # Null /\ Get(data[j], k) # Null)
        => Get(data[i], k) # Get(data[j], k)

\* C2: a column is flagged unique if and only if uniques is enabled and the
\* non-null values observed for it are pairwise distinct (nulls are ignored).
C2_Unique ==
    \A b \in Built : \A n \in DOMAIN builds[b].nodes :
        LET node == builds[b].nodes[n]
        IN  \A c \in ColumnsOf(node) :
                c.unique <=> (arg.uniques /\ NonNullDistinct(node.data, c.name))

\* C3: every table with a child has a primary key that names one of its
\* columns, and each child has exactly one column with a foreign key: the
\* column named by the child's fk_field_name, referencing the immediate
\* parent's table name and key column.
C3_KeyLinkage ==
    \A b \in Built : \A n \in DOMAIN builds[b].nodes :
        LET node == builds[b].nodes[n]
        IN  node.children # <<>> =>
              /\ node.pk_name # NoneV
              /\ \E c \in ColumnsOf(node) : c.name = node.pk_name
              /\ \A k \in Range(node.children) :
                    LET child == builds[b].nodes[k]
                        keyed == {i \in 1..Len(child.columns) : child.columns[i].fk # <<>>}
                    IN  /\ Cardinality(keyed) = 1
                        /\ \A i \in keyed :
                              /\ child.columns[i].name = child.fk_field_name
                              /\ child.columns[i].fk = <<node.table_name, node.pk_name>>

\* a tree three tables deep: the grandchild's key points at its parent,
\* which is not the root
C3_Witness ==
    \E b \in Built : \E n \in DOMAIN builds[b].nodes :
        LET node == builds[b].nodes[n]
        IN  /\ node.parent # NoneV
            /\ builds[b].nodes[node.parent].parent # NoneV
            /\ \E c \in ColumnsOf(node) : c.fk # <<>> /\ c.fk[1] = node.parent

\* every decoder applied to the text gives an empty, non-string result
DecodesToEmpty(t) ==
    LET funcs == eval_funcs_by_ext(IF t.isfile THEN t.ext ELSE NoneV)
    IN  \A i \in 1..Len(funcs) :
            LET o == t.res[funcs[i]]
            IN  o[1] = "value" /\ ~IsString(o[2]) /\ ~Truthy(o[2])

EmptyInput ==
    \/ arg.data[1] = "native" /\ ~Truthy(arg.data[2])
    \/ arg.data[1] = "text" /\ DecodesToEmpty(arg.data[2])

\* C4: when the decoded population is empty, construction fails with
\* "No data found", and no table is built or registered.
C4_InputEmpty ==
    \A b \in DOMAIN builds :
        EmptyInput => /\ builds[b].err = "NoDataFound"
                      /\ builds[b].nodes = EmptyMetadata

\* C5: a request naming a dialect outside the supported set is rejected as
\* unsupported before anything is computed for it, at construction
\* (default_dialect) as well as in ddl(), inserts() and sql().
C5_UnsupportedDialect ==
    (last.op # "none" /\ last.dialect # NoneV /\ last.dialect \notin mock_engines)
        => (last.err = "UnknownDialect" /\ last.stages = {})

RECURSIVE IsDescendant(_, _, _)
IsDescendant(nodes, u, t) ==
    /\ nodes[u].parent # NoneV
    /\ \/ nodes[u].parent = t
       \/ IsDescendant(nodes, nodes[u].parent, t)

\* the positions of the statements of table t
Positions(stmts, t) == {i \in 1..Len(stmts) : stmts[i][2] = t}

\* C6: ddl() and inserts() emit a table's own statements (its INSERTs in row
\* order) before any statement of a descendant, and sibling child tables in
\* the order normalization discovered them.
C6_ParentFirst ==
    (last.op \in {"ddl", "inserts"} /\ last.err = "ok") =>
        LET nodes == builds[last.target].nodes
            st == last.stmts
        IN  /\ \A t, u \in DOMAIN nodes :
                  IsDescendant(nodes, u, t) =>
                      \A i \in Positions(st, t), j \in Positions(st, u) : i < j
            /\ \A i, j \in 1..Len(st) :
                  (i < j /\ st[i][1] = "INSERT" /\ st[j][1] = "INSERT" /\ st[i][2] = st[j][2])
                      => st[i][3] < st[j][3]
            /\ \A t \in DOMAIN nodes :
                  \A p, q \in 1..Len(nodes[t].discovered) :
                      p < q => \A i \in Positions(st, nodes[t].discovered[p]),
                                  j \in Positions(st, nodes[t].discovered[q]) : i < j

\* the constructions without a table_name that were given a generated name
Unnamed == {b \in DOMAIN builds : builds[b].table_name = NoneV /\ builds[b].assigned # NoneV}

\* C7: the counter advances with each unnamed table, and no two unnamed
\* tables receive the same generated name.
C7_GeneratedNames ==
    /\ table_index >= Cardinality(Unnamed)
    /\ \A i, j \in Unnamed : i # j => builds[i].assigned # builds[j].assigned

\* C8: at most one column of a table is the primary key, and a designated
\* primary-key column is marked non-nullable and unique, whatever the data
\* and whether or not uniques is enabled.
C8_PrimaryKey ==
    \A b \in Built : \A n \in DOMAIN builds[b].nodes :
        LET node == builds[b].nodes[n]
        IN  /\ Cardinality({i \in 1..Len(node.columns) : node.columns[i].primary_key}) <= 1
            /\ \A c \in ColumnsOf(node) :
                  (node.pk_name # NoneV /\ c.name = node.pk_name)
                      => (c.primary_key /\ ~c.nullable /\ c.unique)

\* the decoders in priority order, for a text or the content of a file
Priority(t) ==
    IF t.isfile /\ t.ext = ".py" THEN <<"eval">>
    ELSE IF t.isfile /\ t.ext = ".json" THEN <<"json">>
    ELSE IF t.isfile /\ t.ext = ".yaml" THEN <<"yaml">>
    ELSE IF t.isfile /\ t.ext = ".csv" THEN <<"csv">>
    ELSE <<"eval", "json", "yaml", "csv">>

\* a decoder result the loop passes over: an Exception, a string, or empty
Skipped(o) == o[1] = "raise" \/ (o[1] = "value" /\ (o[2][1] = "str" \/ ~Truthy(o[2])))

\* the decoders are applied in priority order up to the first whose result is
\* taken, and the loaded data is that result; when none is taken all were
\* applied and the construction fails
DecodersInOrder(b, t) ==
    LET funcs == Priority(t)
        tried == builds[b].tried
        n == Len(tried)
    IN  /\ n >= 1 /\ n <= Len(funcs) /\ tried = SubSeq(funcs, 1, n)
        /\ \A i \in 1..(n - 1) : Skipped(t.res[funcs[i]])
        /\ CASE Skipped(t.res[funcs[n]]) ->
                    /\ n = Len(funcs)
                    /\ builds[b].err \in {"FilenameNotFound", "UnableToInterpret"}
             [] t.res[funcs[n]][1] = "exit" -> builds[b].err = "SystemExit"
             [] OTHER ->
                    /\ builds[b].loaded = t.res[funcs[n]][2]
                    /\ builds[b].err \notin {"FilenameNotFound", "UnableToInterpret",
                                             "SystemExit"}

NoWhitespaceOrComma(chars) == \A i \in 1..Len(chars) : chars[i] \notin Whitespace \cup {","}

\* C9 as stated: after a failed decode the error is filename-not-found when
\* the text contains no whitespace or comma, otherwise unable-to-interpret.
C9_DecodersAsStated ==
    \A b \in DOMAIN builds :
        arg.data[1] = "text" =>
            LET t == arg.data[2]
            IN  /\ DecodersInOrder(b, t)
                /\ builds[b].err \in {"FilenameNotFound", "UnableToInterpret"} =>
                      (builds[b].err = "FilenameNotFound" <=> NoWhitespaceOrComma(t.chars))

\* a non-empty text without whitespace or comma, but for one final newline
NameLike(chars) ==
    LET body == IF chars # <<>> /\ chars[Len(chars)] = "\n"
                THEN SubSeq(chars, 1, Len(chars) - 1) ELSE chars
    IN  body # <<>> /\ NoWhitespaceOrComma(body)

\* C9 amended: the decoders run in priority order, the first non-empty
\* non-string result is the loaded data and ends the loop, a decoder that
\* raises an Exception or returns a string or nothing is passed over (an
\* exit raised inside a decoder ends the call); when none is taken the error
\* is filename-not-found exactly when the text is non-empty without
\* whitespace or comma other than one final newline, otherwise
\* unable-to-interpret.
C9_Decoders ==
    \A b \in DOMAIN builds :
        arg.data[1] = "text" =>
            LET t == arg.data[2]
            IN  /\ DecodersInOrder(b, t)
                /\ builds[b].err \in {"FilenameNotFound", "UnableToInterpret"} =>
                      (builds[b].err = "FilenameNotFound" <=> NameLike(t.chars))

\* a text on which eval and json raise, yaml returns a string, and csv's
\* rows are loaded
C9_Witness ==
    \E b \in Built :
        /\ arg.data[1] = "text"
        /\ builds[b].tried = <<"eval", "json", "yaml", "csv">>
        /\ arg.data[2].res["yaml"][1] = "value" /\ IsString(arg.data[2].res["yaml"][2])
        /\ builds[b].loaded = arg.data[2].res["csv"][2]

\* the schema of a built tree: per table its columns, key and child tables
Schema(b) ==
    [n \in DOMAIN builds[b].nodes |->
        [columns |-> builds[b].nodes[n].columns,
         pk_name |-> builds[b].nodes[n].pk_name,
         children |-> Range(builds[b].nodes[n].children)]]

\* C10: building again from the same population under the same table name
\* succeeds and yields the same schema.
C10_Rebuild ==
    \A i, j \in DOMAIN builds :
        (/\ i < j
         /\ builds[i].table_name # NoneV
         /\ builds[i].table_name = builds[j].table_name
         /\ builds[i].err = "ok")
        => (builds[j].err = "ok" /\ Schema(j) = Schema(i))
====
